---- MODULE Spec2Model ----
(***************************************************************************)
(* Model of boxmot/motion/cmc/sift.py: the SIFT camera-motion estimator.   *)
(*                                                                         *)
(* State: the estimator instances (their configuration and their cached    *)
(* previous keypoints/descriptors, self.prev_desc) and, per instance, the  *)
(* number of apply() calls made on it and the outcomes of the latest two.  *)
(*                                                                         *)
(* Conventions.                                                            *)
(*  - A number that the code holds as a float (the scale, an entry of a    *)
(*    warp matrix) is an IEEE double, written <<n, d, u>> (d > 0, n/d in   *)
(*    lowest terms): the double u steps above (below, if u < 0) the double *)
(*    nearest to the rational n/d.  The literal 0.7 is <<7, 10, 0>>.       *)
(*    Products and quotients are rounded to the nearest double, ties to    *)
(*    even, as the hardware does; the sign of a zero is not kept.          *)
(*    The operands are the numbers of the model: integers and literals    *)
(*    whose numerators and denominators are small (below 2^15), so that   *)
(*    the arithmetic stays within the integers of the model checker.      *)
(*  - A preprocessed image is given by its size and by the features it     *)
(*    shows: each feature has a pixel position and a descriptor.  The      *)
(*    descriptors are one-dimensional, so the L2 distance of two of them   *)
(*    is the absolute difference.                                          *)
(*  - cv2.SIFT.detectAndCompute(frame, mask) returns the features at the   *)
(*    pixels the mask permits, and None as the descriptor array when it    *)
(*    finds no keypoint.                                                   *)
(*  - cv2.estimateAffinePartial2D (RANSAC) is an external, randomised      *)
(*    solver: its result is an input of the call, either None or a 2x3     *)
(*    matrix.                                                              *)
(*  - Match indices (queryIdx, trainIdx) are 0-based as in OpenCV;         *)
(*    sequences are 1-based, so element idx is at position idx + 1.        *)
(*  - Matrix entry A[r, c] of the code is A[r + 1][c + 1] here.            *)
(*  - An exception raised by apply() is recorded as the call's path; the   *)
(*    instance keeps the state it had when the exception was raised.       *)
(*  - The scale is a number, and the frame given to apply() is one that    *)
(*    preprocess turns into a single-channel image (a colour frame with    *)
(*    grayscale=True): the colour conversion itself is not modelled.       *)
(***************************************************************************)
EXTENDS Integers, Sequences, FiniteSets, TLC

VARIABLES
    inst,    \* name -> the estimator bound to it (its attributes), or NoInstance
    ncalls,  \* name -> number of apply() calls made on the estimator so far
    calls,   \* name -> the outcomes of the latest two calls on it, older first
    solo,    \* name -> the estimator, and the outcome of its latest call, as
             \* they are when its calls run alone, with no other estimator
    mask_args, \* the arguments of one construction of the exclusion mask:
               \* frame size, detections and scale (<<>> if none is followed)
    mask     \* the mask built from mask_args: pixel <<y, x>> -> 0 or 255
             \* (<<>> until it is built)

vars == <<inst, ncalls, calls, solo, mask_args, mask>>

(***************************************************************************)
(* Bounds of the model.                                                    *)
(***************************************************************************)
\* number of apply() calls made on one instance
MaxCalls == 3
\* size of the preprocessed image (rows, columns)
ImgH == 4
ImgW == 16

\* estimator instances
Instances == {"A", "B"}

(***************************************************************************)
(* Values.                                                                 *)
(***************************************************************************)
\* Python's None.  Whatever can be None in the code is a non-empty tuple
\* otherwise: [kp, desc], a descriptor array (never without rows when it
\* comes from detectAndCompute), a matrix.  For detections, None and the
\* empty list have the same effect: no box is masked.
None == <<>>
\* an instance name not bound to an estimator yet
NoInstance == [constructed |-> FALSE]
\* the call raised: nothing is returned
NoReturn == <<>>
\* the place of a value of a stage the call did not reach
NotReached == <<>>

\* cv2 motion model flags
MOTION_TRANSLATION == 0
MOTION_EUCLIDEAN == 1
MOTION_AFFINE == 2
MOTION_HOMOGRAPHY == 3

(***************************************************************************)
(* Arithmetic on small exact rationals <<n, d>> (d > 0, lowest terms), in  *)
(* which the rounding of the doubles is worked out.                        *)
(***************************************************************************)
Abs(x) == IF x < 0 THEN -x ELSE x

Sgn(x) == IF x > 0 THEN 1 ELSE IF x < 0 THEN -1 ELSE 0

RECURSIVE Gcd(_, _)
Gcd(a, b) == IF b = 0 THEN a ELSE Gcd(b, a % b)

QRat(n, d) ==
    LET s == IF d < 0 THEN -1 ELSE 1
        g == Gcd(Abs(n), Abs(d))
    IN  <<(s * n) \div g, (s * d) \div g>>

\* a * b, the common factors g of a[1], b[2] and h of b[1], a[2] taken out
\* before multiplying
QMulOut(a, b, g, h) ==
    <<(a[1] \div g) * (b[1] \div h), (a[2] \div h) * (b[2] \div g)>>

QMul(a, b) ==
    IF a[1] = 0 \/ b[1] = 0 THEN <<0, 1>>
    ELSE QMulOut(a, b, Gcd(Abs(a[1]), b[2]), Gcd(Abs(b[1]), a[2]))

QAdd(a, b) == QRat(a[1] * b[2] + b[1] * a[2], a[2] * b[2])

QLt(a, b) == a[1] * b[2] < b[1] * a[2]

\* the largest integer not above a
QFloor(a) == a[1] \div a[2]

\* 2^e, for any integer e
Pow2(e) == IF e >= 0 THEN <<2^e, 1>> ELSE <<1, 2^(-e)>>

\* h * h, doubled for an odd k, modulo m
SquareMod(h, k, m) == (h * h * (IF k % 2 = 1 THEN 2 ELSE 1)) % m

\* 2^k modulo m
RECURSIVE Pow2Mod(_, _)
Pow2Mod(k, m) ==
    IF k = 0 THEN 1 % m ELSE SquareMod(Pow2Mod(k \div 2, m), k, m)

RECURSIVE Log2Up(_, _, _)
Log2Up(n, d, a) == IF d * 2^(a + 1) <= n THEN Log2Up(n, d, a + 1) ELSE a

RECURSIVE Log2Down(_, _, _)
Log2Down(n, d, j) == IF n * 2^j >= d THEN -j ELSE Log2Down(n, d, j + 1)

\* the binary exponent of n/d (n, d > 0): the a with 2^a <= n/d < 2^(a+1)
FloorLog2(n, d) == IF n >= d THEN Log2Up(n, d, 0) ELSE Log2Down(n, d, 1)

(***************************************************************************)
(* IEEE double arithmetic (53-bit significand, round to nearest, ties to   *)
(* even).                                                                  *)
(***************************************************************************)
\* the float literal n/d: the double nearest to the rational n/d
Rat(n, d) == QRat(n, d) \o <<0>>

\* the float value of an integer
R(n) == <<n, 1, 0>>

\* the denominators of the rationals that are doubles themselves
PowersOfTwo == {2^k : k \in 0..30}

\* The double nearest to n/d (n, d > 0) is (n/d) * (1 + E * 2^-52): E.
\* With a the exponent of n/d, n * 2^(52-a) = M * d + r; the significand is
\* M if r is below d/2 and M + 1 if above, so it is off by t/d, t = -r or
\* d - r, and E = t * 2^a / n.  E is 0 if d is a power of two.
RelErrOff(n, d, a, r) ==
    QMul(QRat(IF r = 0 THEN 0 ELSE IF 2 * r < d THEN -r ELSE d - r, n),
         Pow2(a))

RelErrAt(n, d, a) == RelErrOff(n, d, a, ((n % d) * Pow2Mod(52 - a, d)) % d)

RelErr(n, d) ==
    IF d \in PowersOfTwo THEN <<0, 1>> ELSE RelErrAt(n, d, FloorLog2(n, d))

\* The double nearest to (A/B) * (1 + E * 2^-52 + a second-order term of
\* sign tau), as the number of steps from the double nearest to A/B
\* (A, B > 0).  In units of the last place of A/B the value is I + rho/B
\* + S, with I the integer part of the significand of A/B and S the shift
\* by E; it is rounded to an integer, a tie decided by tau and, if tau is
\* 0, for the even significand.  Just below a power of two the doubles
\* are twice as dense.  With E = 0 nothing shifts.
\*   m, twice: the integer part of phi and twice its fractional part
RoundTie(tau, nearer, odd, m, twice) ==
    (IF QLt(twice, <<1, 1>>) THEN m
     ELSE IF QLt(<<1, 1>>, twice) THEN m + 1
     ELSE IF tau > 0 THEN m + 1
     ELSE IF tau < 0 THEN m
     ELSE IF (odd + m) % 2 = 0 THEN m ELSE m + 1) - nearer

RoundHalf(tau, nearer, odd, phi, m) ==
    RoundTie(tau, nearer, odd, m, QMul(QAdd(phi, <<-m, 1>>), <<2, 1>>))

\*   phi: the part of the value to round, nearer: the rounding of rho/B,
\*   odd: the parity of I
RoundPhi(tau, nearer, odd, phi) ==
    RoundHalf(tau, nearer, odd, phi, QFloor(phi))

\*   below: the value is under the power of two A/B
RoundBelow(B, tau, rho, rho2, S, below) ==
    RoundPhi(tau,
             IF below \/ 2 * rho <= B THEN 0 ELSE 1,
             IF below THEN 0 ELSE (rho2 - rho) \div B,
             IF below THEN QMul(S, <<2, 1>>) ELSE QAdd(QRat(rho, B), S))

\*   rho = (A * 2^(52-F)) mod B, rho2 the same mod 2B, S the shift
RoundShift(A, B, tau, F, rho, rho2, S) ==
    RoundBelow(B, tau, rho, rho2, S,
               /\ <<A, B>> = Pow2(F)
               /\ (S[1] < 0 \/ (S[1] = 0 /\ tau < 0)))

\*   F: the exponent of A/B
RoundAt(A, B, E, tau, F) ==
    RoundShift(A, B, tau, F,
               ((A % B) * Pow2Mod(52 - F, B)) % B,
               ((A % (2 * B)) * Pow2Mod(52 - F, 2 * B)) % (2 * B),
               QMul(QMul(E, <<A, B>>), Pow2(-F)))

Rounded(A, B, E, tau) ==
    IF E[1] = 0 THEN 0 ELSE RoundAt(A, B, E, tau, FloorLog2(A, B))

\* sg * val rounded, val the exact product of the magnitudes and Ea, Eb the
\* errors of the factors
MulRounded(sg, val, Ea, Eb) ==
    <<sg * val[1], val[2],
      sg * Rounded(val[1], val[2], QAdd(Ea, Eb), Sgn(Ea[1]) * Sgn(Eb[1]))>>

\* a * b of two doubles written with u = 0
RatMul(a, b) ==
    IF a[1] = 0 \/ b[1] = 0 THEN R(0)
    ELSE MulRounded(Sgn(a[1]) * Sgn(b[1]),
                    QMul(<<Abs(a[1]), a[2]>>, <<Abs(b[1]), b[2]>>),
                    RelErr(Abs(a[1]), a[2]), RelErr(Abs(b[1]), b[2]))

\* sg * val rounded, val the exact quotient of the magnitudes, Eb the error
\* of the divisor and D that error less the error of the dividend
DivRounded(sg, val, Eb, D) ==
    <<sg * val[1], val[2],
      sg * Rounded(val[1], val[2], <<-D[1], D[2]>>, Sgn(Eb[1]) * Sgn(D[1]))>>

\* the error of the divisor less the error Ea of the dividend
ErrDiff(Ea, Eb) == QAdd(Eb, <<-Ea[1], Ea[2]>>)

DivErrors(sg, val, Ea, Eb) == DivRounded(sg, val, Eb, ErrDiff(Ea, Eb))

\* a / b of two doubles written with u = 0, b not zero
RatDiv(a, b) ==
    IF a[1] = 0 THEN R(0)
    ELSE DivErrors(Sgn(a[1]) * Sgn(b[1]),
                   QMul(<<Abs(a[1]), a[2]>>, <<b[2], Abs(b[1])>>),
                   RelErr(Abs(a[1]), a[2]), RelErr(Abs(b[1]), b[2]))

\* a < b
RatLt(a, b) ==
    \/ a[1] * b[2] < b[1] * a[2]
    \/ a[1] * b[2] = b[1] * a[2] /\ a[3] < b[3]

\* float -> int conversion of Python's int() and numpy's astype(int):
\* truncation toward zero.  A double just short of an integer N loses one.
TruncMagnitude(a, N) ==
    IF a[2] = 1 /\ N > 0 /\ Sgn(a[1]) * a[3] < 0 THEN N - 1 ELSE N

Trunc(a) == Sgn(a[1]) * TruncMagnitude(a, Abs(a[1]) \div a[2])

Min(a, b) == IF a < b THEN a ELSE b
Max(a, b) == IF a > b THEN a ELSE b

\* np.eye(r, c)
Eye(r, c) == [i \in 1..r |-> [j \in 1..c |-> IF i = j THEN R(1) ELSE R(0)]]

(***************************************************************************)
(* SIFT.__init__: stores the configuration as given (no value is rejected),*)
(* picks the shape of self.warp_matrix from the warp mode and starts with  *)
(* an empty cache.                                                         *)
(***************************************************************************)
\* variant: one descriptor is enough for the matcher
SIFT_init_MinOne(warp_mode, scale) ==
    [ scale            |-> scale,
      warp_mode        |-> warp_mode,
      warp_matrix      |-> IF warp_mode = MOTION_HOMOGRAPHY
                           THEN Eye(3, 3) ELSE Eye(2, 3),
      minimum_features |-> 1,
      prev_desc        |-> None ]

SIFT_init(warp_mode, scale) ==
    [ scale            |-> scale,
      warp_mode        |-> warp_mode,
      warp_matrix      |-> IF warp_mode = MOTION_HOMOGRAPHY
                           THEN Eye(3, 3) ELSE Eye(2, 3),
      minimum_features |-> 10,
      prev_desc        |-> None ]

(***************************************************************************)
(* SIFT.preprocess: cv2.resize(img, (0, 0), fx=scale, fy=scale) raises     *)
(* cv2.error unless the factor is positive; otherwise the result is the    *)
(* preprocessed image, which is what the model takes as the call's input.  *)
(***************************************************************************)
preprocess_raises(self) == ~ RatLt(R(0), self.scale)

(***************************************************************************)
(* The exclusion mask of apply().  numpy slice a:b over an axis of length  *)
(* len: a negative bound counts from the end, and both bounds are clipped  *)
(* to 0..len.                                                              *)
(***************************************************************************)
SliceBound(a, len) == IF a < 0 THEN Max(a + len, 0) ELSE Min(a, len)

InSlice(p, a, b, len) == SliceBound(a, len) <= p /\ p < SliceBound(b, len)

\* int(0.02 * n) and int(0.98 * n)
BorderLo(n) == (2 * n) \div 100
BorderHi(n) == (98 * n) \div 100

\* tlbr = np.multiply(det, self.scale).astype(int)
ScaledBox(det, scale) == [k \in 1..4 |-> Trunc(RatMul(R(det[k]), scale))]

\* mask[tlbr[1]:tlbr[3], tlbr[0]:tlbr[2]] = 0 covers pixel (y, x)
BoxCovers(tlbr, height, width, y, x) ==
    /\ InSlice(y, tlbr[2], tlbr[4], height)
    /\ InSlice(x, tlbr[1], tlbr[3], width)

\* the tlbr of every detection, in the order of the loop
ScaledBoxes(detections, scale) ==
    IF detections = None THEN <<>>
    ELSE [k \in 1..Len(detections) |-> ScaledBox(detections[k], scale)]

\* the mask is 255 at pixel (row y, column x), the detections' tlbrs given
MaskOf(height, width, tlbrs, y, x) ==
    /\ InSlice(y, BorderLo(height), BorderHi(height), height)
    /\ InSlice(x, BorderLo(width), BorderHi(width), width)
    /\ \A k \in 1..Len(tlbrs) : ~ BoxCovers(tlbrs[k], height, width, y, x)

\* the mask is 255 at pixel (row y, column x)
MaskAt(height, width, detections, scale, y, x) ==
    MaskOf(height, width, ScaledBoxes(detections, scale), y, x)

(***************************************************************************)
(* The same mask, statement by statement, as an array: pixel <<y, x>> (row,*)
(* column, from 0) -> 0 or 255.                                            *)
(***************************************************************************)
Pixels(height, width) == (0..(height - 1)) \X (0..(width - 1))

\* np.zeros_like(frame)
ZerosLike(height, width) == [p \in Pixels(height, width) |-> 0]

\* m[r0:r1, c0:c1] = v
SetSlice(m, height, width, r0, r1, c0, c1, v) ==
    [p \in DOMAIN m |->
        IF InSlice(p[1], r0, r1, height) /\ InSlice(p[2], c0, c1, width)
        THEN v ELSE m[p]]

\* for det in detections: tlbr = ...; mask[tlbr[1]:tlbr[3], tlbr[0]:tlbr[2]] = 0
RECURSIVE ZeroDetections(_, _, _, _, _, _)
ZeroDetections(m, height, width, detections, scale, k) ==
    IF k > Len(detections) THEN m
    ELSE LET tlbr == ScaledBox(detections[k], scale)
         IN  ZeroDetections(
                 SetSlice(m, height, width, tlbr[2], tlbr[4], tlbr[1], tlbr[3], 0),
                 height, width, detections, scale, k + 1)

\* lines 98-105 of apply
BuildMask(height, width, detections, scale) ==
    LET central == SetSlice(ZerosLike(height, width), height, width,
                            BorderLo(height), BorderHi(height),
                            BorderLo(width), BorderHi(width), 255)
    IN  IF detections = None THEN central
        ELSE ZeroDetections(central, height, width, detections, scale, 1)

(***************************************************************************)
(* kp, desc = detector.detectAndCompute(frame, mask)                       *)
(***************************************************************************)
DetectAndCompute(frame, detections, scale) ==
    LET tlbrs == ScaledBoxes(detections, scale)
        seen  == SelectSeq(frame.features,
                     LAMBDA f : MaskOf(frame.h, frame.w, tlbrs,
                                       f.pt[2], f.pt[1]))
    IN  [ kp   |-> [i \in 1..Len(seen) |-> seen[i].pt],
          desc |-> IF Len(seen) = 0 THEN None
                   ELSE [i \in 1..Len(seen) |-> seen[i].d] ]

(***************************************************************************)
(* bf.knnMatch(query, train, k): for every query descriptor, its k nearest *)
(* train descriptors (fewer when train has fewer), nearest first.          *)
(***************************************************************************)
Dist(a, b) == Abs(a - b)

\* least element of a non-empty set of integers
SetMin(S) == CHOOSE x \in S : \A y \in S : x <= y

\* the train index nearest to descriptor q among cand (ties: lowest index)
Nearest(q, train, cand) ==
    LET dmin == SetMin({Dist(q, train[t]) : t \in cand})
    IN  SetMin({t \in cand : Dist(q, train[t]) = dmin})

RECURSIVE NearestK(_, _, _, _)
NearestK(q, train, cand, k) ==
    IF k = 0 \/ cand = {} THEN <<>>
    ELSE LET t == Nearest(q, train, cand)
         IN  <<t>> \o NearestK(q, train, cand \ {t}, k - 1)

knnMatch(query, train, k) ==
    [qi \in 1..Len(query) |->
        LET near == NearestK(query[qi], train, 1..Len(train), k)
        IN  [j \in 1..Len(near) |->
                [ queryIdx |-> qi - 1,
                  trainIdx |-> near[j] - 1,
                  distance |-> Dist(query[qi], train[near[j]]) ]]]

\* m.distance < 0.7 * n.distance
RatioTest(m, n) == 10 * m.distance < 7 * n.distance

\* the loop "for m, n in matches": the matches that pass the ratio test
GoodMatches(matches) ==
    LET kept == SelectSeq(matches, LAMBDA mn : RatioTest(mn[1], mn[2]))
    IN  [i \in 1..Len(kept) |-> kept[i][1]]

\* unpacking "for m, n in matches" needs two entries per match
UnpackRaises(matches) == \E i \in 1..Len(matches) : Len(matches[i]) # 2

\* number of rows of a descriptor array: desc.shape[0]
Rows(desc) == Len(desc)

(***************************************************************************)
(* SIFT.apply.  The result of one call on an instance in state self:       *)
(*   path      which return (or raise) statement ended the call            *)
(*   ret       the returned matrix, NoReturn when the call raised          *)
(*   prev_desc self.prev_desc when the call ends, [kp, desc] as <<kp,desc>>*)
(*   kp, desc  what detectAndCompute returned in this call                 *)
(*   matched   the matcher (knnMatch) was run in this call                 *)
(*   query     the descriptors the matcher was run against                 *)
(*   good      the matches that passed the ratio test                      *)
(*   fitted    the robust estimator was run in this call                   *)
(*   src_pts, dst_pts, est   the point pairs given to the robust estimator *)
(*             and what it returned                                        *)
(***************************************************************************)
Outcome(path, ret, cache, ex, matched, query, good, fitted, src, dst, est) ==
    [ path |-> path, ret |-> ret, prev_desc |-> cache,
      kp |-> ex.kp, desc |-> ex.desc,
      matched |-> matched, query |-> query, good |-> good,
      fitted |-> fitted, src_pts |-> src, dst_pts |-> dst, est |-> est ]

\* a call that ends before the matcher is reached
BeforeMatcher(path, ret, cache, ex) ==
    Outcome(path, ret, cache, ex, FALSE, NotReached, NotReached,
            FALSE, NotReached, NotReached, NotReached)

\* a call that ends after the matcher, before the robust estimator
BeforeEstimator(path, ret, cache, ex, query, good) ==
    Outcome(path, ret, cache, ex, TRUE, query, good,
            FALSE, NotReached, NotReached, NotReached)

\* the call did not get to detectAndCompute
NoExtraction == [kp |-> NotReached, desc |-> NotReached]

\* variant: the first call returns without filling the cache
FirstCall_NoCache(self, ex) ==
    BeforeMatcher("first", Eye(2, 3), self.prev_desc, ex)

\* variant: the first call caches the descriptors without the keypoints
FirstCall_DescOnly(self, ex) ==
    BeforeMatcher("first", Eye(2, 3), <<<<>>, ex.desc>>, ex)

\* if self.prev_desc is None: self.prev_desc = [kp, desc]; return A
FirstCall(self, ex) ==
    BeforeMatcher("first", Eye(2, 3), <<ex.kp, ex.desc>>, ex)

\* if self.scale < 1.0
NeedsUpscale(scale) == RatLt(scale, R(1))

\* variant: the translation is multiplied by the scale
Upscale_Multiply(A, scale) ==
    [A EXCEPT ![1][3] = RatMul(@, scale), ![2][3] = RatMul(@, scale)]

\* A[0, 2] /= self.scale; A[1, 2] /= self.scale
Upscale(A, scale) ==
    [A EXCEPT ![1][3] = RatDiv(@, scale), ![2][3] = RatDiv(@, scale)]

\* the branch "if len(good) > self.minimum_features" and what follows it
Estimate(self, ex, good, est) ==
    LET prev_kp == self.prev_desc[1]
        query   == self.prev_desc[2]
        src_pts == [i \in 1..Len(good) |-> prev_kp[good[i].queryIdx + 1]]
        dst_pts == [i \in 1..Len(good) |-> ex.kp[good[i].trainIdx + 1]]
    IN  IF NeedsUpscale(self.scale) /\ est = None
        THEN \* A[0, 2] on None
             Outcome("TypeError", NoReturn, self.prev_desc, ex,
                     TRUE, query, good, TRUE, src_pts, dst_pts, est)
        ELSE LET A == IF NeedsUpscale(self.scale)
                      THEN Upscale(est, self.scale) ELSE est
             IN  IF A = None
                 THEN Outcome("fit_failed", Eye(2, 3),
                              <<ex.kp, ex.desc>>, ex,
                              TRUE, query, good, TRUE, src_pts, dst_pts, est)
                 ELSE Outcome("estimated", A,
                              <<ex.kp, ex.desc>>, ex,
                              TRUE, query, good, TRUE, src_pts, dst_pts, est)

\* enough matches for the robust estimator
EnoughMatches(self, good) == Len(good) > self.minimum_features

\* from "bf = cv2.BFMatcher(cv2.NORM_L2)" to the end of apply
MatchAndEstimate(self, ex, est) ==
    LET query   == self.prev_desc[2]
        matches == knnMatch(query, ex.desc, 2)
    IN  IF UnpackRaises(matches)
        THEN BeforeEstimator("ValueError", NoReturn, self.prev_desc, ex,
                             query, NotReached)
        ELSE LET good == GoodMatches(matches)
             IN  IF EnoughMatches(self, good)
                 THEN Estimate(self, ex, good, est)
                 ELSE \* print("Warning: not enough matching points")
                      BeforeEstimator("not_enough_matches", Eye(2, 3),
                                      <<ex.kp, ex.desc>>, ex, query, good)

\* variant: the descriptor-count return empties the cache
InsufficientFeatures_Reset(self, ex) ==
    BeforeMatcher("insufficient_features", Eye(2, 3), None, ex)

\* "return A" of the descriptor-count test: the cache is left as it is
InsufficientFeatures(self, ex) ==
    BeforeMatcher("insufficient_features", Eye(2, 3), self.prev_desc, ex)

\* desc.shape[0] or self.prev_desc[1].shape[0] on None
ShapeOfNone(self, ex) ==
    BeforeMatcher("AttributeError", NoReturn, self.prev_desc, ex)

apply(self, frame, detections, est) ==
    IF preprocess_raises(self)
    THEN BeforeMatcher("cv2.error", NoReturn, self.prev_desc, NoExtraction)
    ELSE LET ex == DetectAndCompute(frame, detections, self.scale)
         IN  IF self.prev_desc = None THEN FirstCall(self, ex)
             ELSE IF ex.desc = None THEN ShapeOfNone(self, ex)
             ELSE IF Rows(ex.desc) < self.minimum_features
                  THEN InsufficientFeatures(self, ex)
             ELSE IF self.prev_desc[2] = None THEN ShapeOfNone(self, ex)
             ELSE IF Rows(self.prev_desc[2]) < self.minimum_features
                  THEN InsufficientFeatures(self, ex)
             ELSE MatchAndEstimate(self, ex, est)

(***************************************************************************)
(* Inputs.                                                                 *)
(***************************************************************************)
\* an image with n features in a row, descriptors 100 apart, shifted by off
MkImage(n, off) ==
    [ h |-> ImgH, w |-> ImgW,
      features |-> [i \in 1..n |-> [pt |-> <<i, 1>>, d |-> 100 * i + off]] ]

Images == {MkImage(0, 0), MkImage(5, 0), MkImage(10, 0), MkImage(12, 0),
           MkImage(12, 50)}

\* detections: absent, or one box (x1, y1, x2, y2) in full resolution
Box == <<2, 0, 4, 4>>
DetectionSets == {None, <<Box>>}

\* results of cv2.estimateAffinePartial2D: no matrix, or a quarter turn
\* with a translation
Turn == <<<<R(0), R(-1), R(3)>>, <<R(1), R(0), R(-5)>>>>
EstimatorResults == {None, Turn}

Scales == {Rat(-1, 2), R(0), Rat(1, 2), Rat(9, 10), R(1), R(2)}
WarpModes == {MOTION_EUCLIDEAN, MOTION_HOMOGRAPHY, 7}

\* what the robust estimator may answer in a call: it answers only if the
\* call gets to it
EstimatorAnswers(self, frame, detections) ==
    IF apply(self, frame, detections, None).fitted
    THEN EstimatorResults ELSE {None}

(***************************************************************************)
(* Actions.                                                                *)
(***************************************************************************)
\* variant: prev_desc is one attribute shared by all estimators
SetPrevDesc_Shared(insts, i, cache) ==
    [j \in DOMAIN insts |->
        IF insts[j] = NoInstance THEN insts[j]
        ELSE [insts[j] EXCEPT !.prev_desc = cache]]

\* self.prev_desc = ... is a write to the instance's own attribute
SetPrevDesc(insts, i, cache) == [insts EXCEPT ![i].prev_desc = cache]

\* the outcomes of the latest two calls after one more call
Remember(log, out) ==
    IF log = <<>> THEN <<out>> ELSE <<log[Len(log)], out>>

Init ==
    /\ inst = [i \in Instances |-> NoInstance]
    /\ ncalls = [i \in Instances |-> 0]
    /\ calls = [i \in Instances |-> <<>>]
    /\ solo = [i \in Instances |-> [self |-> NoInstance, out |-> <<>>]]
    /\ mask_args = <<>>
    /\ mask = <<>>

\* i = SIFT(warp_mode=warp_mode, scale=scale)
Construct(i, warp_mode, scale) ==
    /\ inst[i] = NoInstance
    /\ inst' = [inst EXCEPT ![i] = SIFT_init(warp_mode, scale)]
    /\ solo' = [solo EXCEPT ![i].self = SIFT_init(warp_mode, scale)]
    /\ UNCHANGED <<ncalls, calls, mask_args, mask>>

\* i.apply(frame, detections); est is what the robust estimator answers
ApplyWith(i, frame, detections, est) ==
    /\ \E out \in {apply(inst[i], frame, detections, est)} :
           /\ inst' = SetPrevDesc(inst, i, out.prev_desc)
           /\ calls' = [calls EXCEPT ![i] = Remember(@, out)]
    /\ ncalls' = [ncalls EXCEPT ![i] = @ + 1]
    /\ \E alone \in {apply(solo[i].self, frame, detections, est)} :
           solo' = [solo EXCEPT ![i].self.prev_desc = alone.prev_desc,
                                ![i].out = alone]
    /\ UNCHANGED <<mask_args, mask>>

Apply(i, frame, detections) ==
    /\ inst[i] # NoInstance
    /\ ncalls[i] < MaxCalls
    /\ \E est \in EstimatorAnswers(inst[i], frame, detections) :
          ApplyWith(i, frame, detections, est)

\* one estimator, any configuration
Next ==
    \/ \E wm \in WarpModes, sc \in Scales : Construct("A", wm, sc)
    \/ \E f \in Images, d \in DetectionSets : Apply("A", f, d)

Spec == Init /\ [][Next]_vars

(***************************************************************************)
(* Two estimators, one configuration each, their calls interleaved.        *)
(***************************************************************************)
\* the calls made: <<image, detections>>
CallsTwo == { <<MkImage(0, 0), None>>, <<MkImage(12, 0), <<Box>>>> }

NextTwo ==
    \/ \E i \in Instances : Construct(i, MOTION_EUCLIDEAN, Rat(1, 2))
    \/ \E i \in Instances, c \in CallsTwo : Apply(i, c[1], c[2])

SpecTwo == Init /\ [][NextTwo]_vars

(***************************************************************************)
(* The exclusion mask alone: the arguments of one construction are chosen  *)
(* at the start, then the mask is built from them.                         *)
(***************************************************************************)
\* frame sizes <<height, width>>: without and with a border of one pixel
MaskSizes == {<<4, 6>>, <<50, 50>>}

\* detection boxes (x1, y1, x2, y2): inside the frame, odd coordinates,
\* over the left/top edge, wholly left of and above the frame, over the
\* right/bottom edge, and with a coordinate (50) whose product with the
\* scale 0.58 is the double just below 29
MaskBoxes == { <<2, 1, 4, 3>>, <<3, 1, 9, 7>>, <<-10, 5, 20, 25>>,
               <<-30, -30, -10, -10>>, <<40, 40, 120, 120>>,
               <<10, 5, 50, 25>> }

MaskDetections ==
    {None, <<>>} \cup {<<b>> : b \in MaskBoxes}
                \cup {<<b, c>> : b \in MaskBoxes, c \in MaskBoxes}

MaskScales == {Rat(1, 2), Rat(29, 50), R(1), R(2)}

MaskArgs ==
    [size : MaskSizes, detections : MaskDetections, scale : MaskScales]

InitMask ==
    /\ inst = [i \in Instances |-> NoInstance]
    /\ ncalls = [i \in Instances |-> 0]
    /\ calls = [i \in Instances |-> <<>>]
    /\ solo = [i \in Instances |-> [self |-> NoInstance, out |-> <<>>]]
    /\ mask_args \in MaskArgs
    /\ mask = <<>>

\* the mask statements of apply, run on mask_args
MakeMask ==
    /\ mask = <<>>
    /\ mask' = BuildMask(mask_args.size[1], mask_args.size[2],
                         mask_args.detections, mask_args.scale)
    /\ UNCHANGED <<inst, ncalls, calls, solo, mask_args>>

NextMask == MakeMask

SpecMask == InitMask /\ [][NextMask]_vars

(***************************************************************************)
(* Vocabulary of the properties.                                           *)
(***************************************************************************)
Raises == {"cv2.error", "AttributeError", "ValueError", "TypeError"}

\* the call returned a matrix
Returned(c) == c.path \notin Raises

\* the call got as far as detectAndCompute
Extracted(c) == c.path # "cv2.error"

\* the latest call on estimator i
Last(i) == calls[i][Len(calls[i])]

\* the estimators that have been called
Called == {i \in Instances : calls[i] # <<>>}

\* number of descriptors a call extracted
Count(c) == Len(c.kp)

\* <<rows, columns>> of a matrix
Shape(m) == <<Len(m), Len(m[1])>>

ValidWarpModes ==
    {MOTION_TRANSLATION, MOTION_EUCLIDEAN, MOTION_AFFINE, MOTION_HOMOGRAPHY}

(***************************************************************************)
(* Properties.                                                             *)
(***************************************************************************)

\* C1: after any apply() call that completes (by any return), the cached
\* previous keypoints/descriptors are the ones extracted in that call.
C1_CacheIsLatestExtraction ==
    \A i \in Called :
        Returned(Last(i)) =>
            inst[i].prev_desc = <<Last(i).kp, Last(i).desc>>

\* C2: if a call and the call immediately before it both extract at least
\* 10 descriptors, the call is not answered by the insufficient-features
\* return: it runs the matcher against the preceding call's descriptors.
C2_RecoversAfterLowFeatureFrame ==
    \A i \in Called :
        Len(calls[i]) >= 2 =>
            LET c == calls[i][Len(calls[i])]
                p == calls[i][Len(calls[i]) - 1]
            IN  (/\ Extracted(c) /\ Count(c) >= 10
                 /\ Extracted(p) /\ Count(p) >= 10)
                => /\ c.path # "insufficient_features"
                   /\ c.matched
                   /\ c.query = p.desc

\* C3: on a fresh instance, consecutive apply() calls on frames that each
\* yield fewer than 10 features (zero keypoints included) each return the
\* identity transform, and none raises.
C3_LowFeatureCallsReturnIdentity ==
    \A i \in Called :
        (/\ RatLt(R(0), inst[i].scale)
         /\ ncalls[i] = Len(calls[i])
         /\ \A k \in 1..Len(calls[i]) : Count(calls[i][k]) < 10)
        => \A k \in 1..Len(calls[i]) :
              /\ Returned(calls[i][k])
              /\ calls[i][k].ret = Eye(2, 3)

\* C4: whenever the robust estimator is invoked and returns no matrix,
\* apply() returns the identity transform without raising, whatever the
\* scale, and the cache holds the current extraction.
C4_FitFailureGivesIdentity ==
    \A i \in Called :
        (Last(i).fitted /\ Last(i).est = None)
        => /\ Returned(Last(i))
           /\ Last(i).ret = Eye(2, 3)
           /\ inst[i].prev_desc = <<Last(i).kp, Last(i).desc>>

\* C5: the first apply() call on a fresh instance (of a configuration whose
\* preprocessing succeeds, scale > 0) returns the identity transform for any
\* frame and any detections, present or absent, caches that call's keypoints
\* and descriptors, and runs neither the matcher nor the robust estimator.
C5_FirstCallIdentity ==
    \A i \in Called :
        (ncalls[i] = 1 /\ RatLt(R(0), inst[i].scale))
        => /\ calls[i][1].path = "first"
           /\ calls[i][1].ret = Eye(2, 3)
           /\ inst[i].prev_desc = <<calls[i][1].kp, calls[i][1].desc>>
           /\ ~ calls[i][1].matched
           /\ ~ calls[i][1].fitted

\* C5 witness: a first call on a frame with features has returned
C5_Witness ==
    \E i \in Called :
        /\ ncalls[i] = 1
        /\ calls[i][1].path = "first"
        /\ Count(calls[i][1]) >= 10
        /\ inst[i].prev_desc[2] = calls[i][1].desc

\* C6: in a call that runs the matcher, the "not enough matching points"
\* return is taken exactly when fewer than 10 matches pass the ratio test;
\* with 10 or more (exactly 10 included) the robust estimator is invoked.
C6_TenMatchesReachEstimator ==
    \A i \in Called :
        (Last(i).matched /\ Last(i).path # "ValueError")
        => /\ (Last(i).path = "not_enough_matches") <=> (Len(Last(i).good) < 10)
           /\ (Len(Last(i).good) >= 10) => Last(i).fitted

\* C7: no estimator exists with scale <= 0 or with a warp model other than
\* translation / euclidean / affine / homography: construction rejects it.
C7_InvalidConfigurationRejected ==
    \A i \in Instances :
        inst[i] # NoInstance
        => /\ RatLt(R(0), inst[i].scale)
           /\ inst[i].warp_mode \in ValidWarpModes

\* C8: the matrix apply() returns is 3x3 when the warp model is homography
\* and 2x3 otherwise, on every return path.
C8_ShapeMatchesWarpModel ==
    \A i \in Called :
        Returned(Last(i))
        => Shape(Last(i).ret) = IF inst[i].warp_mode = MOTION_HOMOGRAPHY
                                THEN <<3, 3>> ELSE <<2, 3>>

\* the double q is the quotient a / b: its rational is that of a divided by
\* that of b, and it is at most one step from the double nearest to it
IsQuotient(q, a, b) ==
    /\ q[1] * b[1] * a[2] = a[1] * q[2] * b[2]
    /\ Abs(q[3]) <= 1

\* C9: a returned estimator matrix has, when scale < 1.0, its two
\* translation entries equal to the estimator's divided by scale and its
\* other four entries equal to the estimator's; when scale is not below 1.0
\* it is the estimator's matrix, and a returned identity is not rescaled.
C9_TranslationRescaled ==
    \A i \in Called :
        LET c == Last(i)
            s == inst[i].scale
        IN  Returned(c) =>
              IF c.path = "estimated"
              THEN IF RatLt(s, R(1))
                   THEN /\ IsQuotient(c.ret[1][3], c.est[1][3], s)
                        /\ IsQuotient(c.ret[2][3], c.est[2][3], s)
                        /\ \A r \in 1..2, k \in 1..2 : c.ret[r][k] = c.est[r][k]
                   ELSE c.ret = c.est
              ELSE c.ret = Eye(2, 3)

\* C9 witness: an estimator matrix with a translation was returned at a
\* scale below 1.0
C9_Witness ==
    \E i \in Called :
        /\ Last(i).path = "estimated"
        /\ RatLt(inst[i].scale, R(1))
        /\ Last(i).est[1][3] # R(0)
        /\ Last(i).ret # Last(i).est

\* C10: two estimators share no mutable state: under any interleaving of
\* their calls, each estimator's cache and the outcome of each of its calls
\* are what they are when its calls run alone.
C10_InstancesIndependent ==
    \A i \in Instances :
        /\ inst[i] = solo[i].self
        /\ calls[i] # <<>> => Last(i) = solo[i].out

\* C10 witness: both estimators have been called, on different frames, and
\* A got a matrix from the robust estimator after B's calls
C10_Witness ==
    /\ ncalls["A"] >= 2 /\ ncalls["B"] >= 2
    /\ Last("A").path = "estimated"
    /\ inst["A"].prev_desc # inst["B"].prev_desc

\* value v held between lo and hi
Clip(v, lo, hi) == IF v < lo THEN lo ELSE IF v > hi THEN hi ELSE v

\* pixel (y, x) is in the detection rectangle: the box times scale,
\* truncated to integers and clipped to [0, width] x [0, height]
InClippedBox(det, scale, height, width, y, x) ==
    LET t == [k \in 1..4 |-> Trunc(RatMul(R(det[k]), scale))]
    IN  /\ Clip(t[1], 0, width) <= x /\ x < Clip(t[3], 0, width)
        /\ Clip(t[2], 0, height) <= y /\ y < Clip(t[4], 0, height)

\* pixel (y, x) is in the central region
InCentre(height, width, y, x) ==
    /\ (2 * height) \div 100 <= y /\ y < (98 * height) \div 100
    /\ (2 * width) \div 100 <= x /\ x < (98 * width) \div 100

\* C11: the mask permits feature search at exactly the pixels that lie in
\* the central region and outside every detection rectangle (box times
\* scale, truncated, clipped to the frame), for every detection list,
\* boxes with negative or out-of-frame coordinates included.
C11_MaskIsCentreMinusClippedBoxes ==
    mask # <<>> =>
        LET h == mask_args.size[1]
            w == mask_args.size[2]
            d == mask_args.detections
        IN  \A p \in Pixels(h, w) :
                (mask[p] = 255) <=>
                    /\ InCentre(h, w, p[1], p[2])
                    /\ \A k \in 1..Len(d) :
                          ~ InClippedBox(d[k], mask_args.scale, h, w, p[1], p[2])

\* the (previous index, current index) pairs of a sequence of matches whose
\* query is the previous frame and whose train is the current frame
PairsOf(good) == {<<good[k].queryIdx, good[k].trainIdx>> : k \in 1..Len(good)}

\* the correspondences when the search runs over the current descriptors:
\* for each current c, nearest p1 and second nearest p2 among the previous
\* ones, (index of p1, index of c) kept iff dist(c, p1) < 0.7 * dist(c, p2)
CurrentToPrevious(previous, current) ==
    LET kept == GoodMatches(knnMatch(current, previous, 2))
    IN  {<<kept[k].trainIdx, kept[k].queryIdx>> : k \in 1..Len(kept)}

\* C12: the correspondences produced in apply() are exactly those found by
\* searching, for each descriptor of the current frame, its two nearest
\* descriptors in the cached previous frame, and keeping (index of the
\* nearest, index of the current one) iff the ratio test passes.
C12_SearchRunsOverCurrent ==
    \A i \in Called :
        (Last(i).matched /\ Last(i).path # "ValueError") =>
            PairsOf(Last(i).good) = CurrentToPrevious(Last(i).query, Last(i).desc)

\* the estimator holds no cache: self.prev_desc is None
UNINITIALIZED(self) == self.prev_desc = None

\* the estimator holds a cache
READY(self) == self.prev_desc # None

\* the step is a call of apply() on estimator i
CallStep(i) == ncalls'[i] = ncalls[i] + 1

\* C13: an estimator is UNINITIALIZED (no cache) from construction until its
\* first apply() call completes and READY after it; READY is absorbing: no
\* later apply() call, on any input, returns it to UNINITIALIZED or returns
\* through the first-call branch again.
C13_ReadyIsAbsorbing ==
    [][\A i \in Instances :
          /\ (inst[i] = NoInstance /\ inst'[i] # NoInstance)
                => UNINITIALIZED(inst'[i])
          /\ (inst[i] # NoInstance /\ UNINITIALIZED(inst[i]) /\ CallStep(i))
                => IF Returned(calls'[i][Len(calls'[i])])
                   THEN /\ calls'[i][Len(calls'[i])].path = "first"
                        /\ READY(inst'[i])
                   ELSE UNINITIALIZED(inst'[i])
          /\ (inst[i] # NoInstance /\ READY(inst[i]))
                => /\ inst'[i] # NoInstance /\ READY(inst'[i])
                   /\ CallStep(i) => calls'[i][Len(calls'[i])].path # "first"
      ]_vars

\* C13 witness: an estimator made READY by its first call has completed a
\* later call, on a frame with too few features, and is still READY
C13_Witness ==
    \E i \in Called :
        /\ ncalls[i] >= 2
        /\ Len(calls[i]) = 2
        /\ calls[i][1].path = "first"
        /\ calls[i][2].path = "insufficient_features"
        /\ READY(inst[i])

\* C14: in every apply() call that reaches the 2-nearest-neighbour matcher,
\* the cached previous descriptors and the current descriptors both have at
\* least 10 entries, so every match entry holds a nearest and a second
\* nearest neighbour and unpacking it as a pair does not fail.
C14_MatcherInputsHaveTenEntries ==
    \A i \in Called :
        Last(i).matched =>
            /\ Last(i).query # None /\ Len(Last(i).query) >= 10
            /\ Last(i).desc # None /\ Len(Last(i).desc) >= 10
            /\ \A mn \in {knnMatch(Last(i).query, Last(i).desc, 2)[k] :
                             k \in 1..Len(Last(i).query)} : Len(mn) = 2
            /\ Last(i).path # "ValueError"

\* C14 witness: the matcher has run with exactly 10 cached descriptors
\* against a larger current set and some match passed the ratio test
C14_Witness ==
    \E i \in Called :
        /\ Last(i).matched
        /\ Len(Last(i).query) = 10
        /\ Len(Last(i).desc) > 10
        /\ Len(Last(i).good) > 0

\* cache is the pair [kp, desc] that detectAndCompute returns, to an
\* estimator of the given scale, for some frame and detections
IsExtraction(cache, scale) ==
    \E f \in Images, d \in DetectionSets :
        LET ex == DetectAndCompute(f, d, scale)
        IN  cache = <<ex.kp, ex.desc>>

\* the outcome of the call made in the step
ThisCall(i) == calls'[i][Len(calls'[i])]

\* C15: in every READY state the cached keypoints and the cached
\* descriptors are those of one and the same call's extraction, being
\* written together only; so, when the point pairs are built, every
\* previous-frame index of a surviving correspondence is a valid index into
\* the cached keypoints and every current-frame index a valid index into
\* the current keypoints.
C15_CacheIsOneExtraction ==
    /\ [](\A i \in Instances :
            (inst[i] # NoInstance /\ READY(inst[i]))
                => IsExtraction(inst[i].prev_desc, inst[i].scale))
    /\ [][\A i \in Instances :
            /\ (inst[i] # NoInstance /\ CallStep(i)
                  /\ inst'[i].prev_desc # inst[i].prev_desc)
                  => inst'[i].prev_desc = <<ThisCall(i).kp, ThisCall(i).desc>>
            /\ (inst[i] # NoInstance /\ CallStep(i) /\ ThisCall(i).fitted)
                  => \A k \in 1..Len(ThisCall(i).good) :
                        /\ ThisCall(i).good[k].queryIdx \in
                              0..(Len(inst[i].prev_desc[1]) - 1)
                        /\ ThisCall(i).good[k].trainIdx \in
                              0..(Len(ThisCall(i).kp) - 1)
        ]_vars

\* C15 witness: point pairs were built from more than 10 correspondences
\* and the cache was replaced by the extraction of that call, which differs
\* from the one the call started with
C15_Witness ==
    \E i \in Called :
        /\ Len(calls[i]) = 2
        /\ Last(i).fitted
        /\ Len(Last(i).src_pts) > 10
        /\ Last(i).path = "estimated"
        /\ inst[i].prev_desc = <<Last(i).kp, Last(i).desc>>
        /\ Last(i).desc # Last(i).query

====
